---- MODULE Spec2Model ----
(***************************************************************************)
(* MA-FSA (package mafsa): the byte encoder of a finished BuildTree, the   *)
(* decoder that rebuilds a MinTree from those bytes, the numbering pass    *)
(* and the depth-first enumerator.                                         *)
(*                                                                         *)
(* Runes are code points (integers), strings are sequences of runes, a     *)
(* byte slice is a sequence of integers in 0..255.  Go offsets are         *)
(* 0-based: offset i of a slice is element i+1 of the sequence.            *)
(***************************************************************************)
EXTENDS Integers, Sequences, FiniteSets, TLC

VARIABLES
    words,      \* BuildTree: the strings inserted so far, in insertion order
    finished,   \* BuildTree: Finish() has been called
    bytePos,    \* BuildTreeNode.bytePos, per node of the finished tree
    epc,        \* Encoder.Encode: "idle" or "queue" (inside the queue loop)
    queue,      \* Encoder.queue
    curOffset,  \* Encoder.curOffset
    data,       \* Encode's local byte slice
    output,     \* the byte slices returned by the Encode calls so far
    runLog,     \* history: <<node, len(data)>> at each encodeEdges call of the current Encode
    queueLog,   \* history: the nodes appended to Encoder.queue by the current Encode
    input,      \* the byte slice handed to Decoder.Decode: backing array, len, origin
    tree,       \* the MinTree Decode returns: its nodes, node 1 is the root
    err,        \* Decode's result: "none" (not called), "ok", "error", "panic"
    decLog,     \* history of the Decode call: allocations, parsed entries, invalid fields
    dfpc,       \* depthFirst.start: "idle", "search", "send" (blocked in a send), "closed"
    pending,    \* depthFirst.search: the calls still to run, next one first
    channel,    \* depthFirst.channel (unbuffered): the word a blocked send offers
    received,   \* the words the consumer has read from the channel, in order
    consumer    \* the reader of the channel: "reading", "stopped", "done"

buildVars == <<words, finished>>
encVars   == <<bytePos, epc, queue, curOffset, data, output, runLog, queueLog>>
decVars   == <<input, tree, err, decLog>>
enumVars  == <<dfpc, pending, channel, received, consumer>>
vars      == <<buildVars, encVars, decVars, enumVars>>

-----------------------------------------------------------------------------
(* Bounds of the model *)

\* most runes inserted into one BuildTree, all strings together
MaxRunes == 4
\* most Encode calls on one BuildTree
MaxEncodes == 2

\* The runes strings are made of: 'a' (1 byte in UTF-8), U+00E9 (2 bytes),
\* U+FFFD (3 bytes; the replacement character, a valid code point).
Alphabet == {97, 233, 65533}

-----------------------------------------------------------------------------
(* Sequences and order *)

RECURSIVE SortRunes(_)
\* the runes of S in ascending order (sort.Sort over runeSlice, sort.Slice)
SortRunes(S) ==
    IF S = {} THEN <<>>
    ELSE LET m == CHOOSE x \in S : \A y \in S : x <= y
         IN  <<m>> \o SortRunes(S \ {m})

RECURSIVE LexLess(_, _)
\* s < t for Go strings: code-point (= UTF-8 byte) lexicographic order
LexLess(s, t) ==
    IF t = <<>> THEN FALSE
    ELSE IF s = <<>> THEN TRUE
    ELSE IF Head(s) # Head(t) THEN Head(s) < Head(t)
    ELSE LexLess(Tail(s), Tail(t))

RECURSIVE StringsUpTo(_)
\* every string of 0..n runes over Alphabet
StringsUpTo(n) ==
    IF n = 0 THEN {<<>>}
    ELSE LET shorter == StringsUpTo(n - 1)
         IN  shorter \cup {Append(s, c) : s \in shorter, c \in Alphabet}

SeqToSet(s) == {s[i] : i \in DOMAIN s}

RECURSIVE SumSeq(_)
SumSeq(s) == IF s = <<>> THEN 0 ELSE Head(s) + SumSeq(Tail(s))

-----------------------------------------------------------------------------
(* unicode/utf8 *)

RuneError == 65533

\* utf8.RuneLen
RuneLen(r) ==
    IF r < 0 THEN -1
    ELSE IF r <= 127 THEN 1
    ELSE IF r <= 2047 THEN 2
    ELSE IF r >= 55296 /\ r <= 57343 THEN -1
    ELSE IF r <= 65535 THEN 3
    ELSE IF r <= 1114111 THEN 4
    ELSE -1

\* []byte(string(r)): the UTF-8 encoding of a rune (an invalid one becomes U+FFFD)
EncodeRune(r) ==
    LET n == RuneLen(r)
    IN  IF n = 1 THEN <<r>>
        ELSE IF n = 2 THEN <<192 + (r \div 64), 128 + (r % 64)>>
        ELSE IF n = 3 THEN <<224 + (r \div 4096), 128 + ((r \div 64) % 64), 128 + (r % 64)>>
        ELSE IF n = 4 THEN <<240 + (r \div 262144), 128 + ((r \div 4096) % 64),
                             128 + ((r \div 64) % 64), 128 + (r % 64)>>
        ELSE <<239, 191, 189>>

Cont(b) == b >= 128 /\ b <= 191

\* utf8.DecodeRune: the first rune of p and its width; (RuneError, 0) for an
\* empty p, (RuneError, 1) for an invalid or incomplete encoding.
DecodeRune(p) ==
    LET n   == Len(p)
        bad == [r |-> RuneError, size |-> 1]
    IN  IF n = 0 THEN [r |-> RuneError, size |-> 0]
        ELSE LET b0 == p[1] IN
        IF b0 < 128 THEN [r |-> b0, size |-> 1]
        ELSE IF b0 >= 194 /\ b0 <= 223 THEN
            IF n >= 2 /\ Cont(p[2])
            THEN [r |-> (b0 - 192) * 64 + (p[2] - 128), size |-> 2]
            ELSE bad
        ELSE IF b0 >= 224 /\ b0 <= 239 THEN
            LET lo == IF b0 = 224 THEN 160 ELSE 128
                hi == IF b0 = 237 THEN 159 ELSE 191
            IN  IF n >= 3 /\ p[2] >= lo /\ p[2] <= hi /\ Cont(p[3])
                THEN [r |-> (b0 - 224) * 4096 + (p[2] - 128) * 64 + (p[3] - 128),
                      size |-> 3]
                ELSE bad
        ELSE IF b0 >= 240 /\ b0 <= 244 THEN
            LET lo == IF b0 = 240 THEN 144 ELSE 128
                hi == IF b0 = 244 THEN 143 ELSE 191
            IN  IF n >= 4 /\ p[2] >= lo /\ p[2] <= hi /\ Cont(p[3]) /\ Cont(p[4])
                THEN [r |-> (b0 - 240) * 262144 + (p[2] - 128) * 4096
                            + (p[3] - 128) * 64 + (p[4] - 128),
                      size |-> 4]
                ELSE bad
        ELSE bad

-----------------------------------------------------------------------------
(* encoding/binary, big endian *)

\* the shift of a pointer field's k-th byte from the right, as a divisor
Pow256(k) == IF k = 0 THEN 1 ELSE IF k = 1 THEN 256 ELSE IF k = 2 THEN 65536 ELSE 16777216

\* binary.BigEndian.PutUint16/32/64 of a value below 2^31: n bytes
PutUint(n, v) ==
    [k \in 1..n |-> IF n - k >= 4 THEN 0 ELSE (v \div Pow256(n - k)) % 256]

RECURSIVE BigEndian(_)
\* binary.BigEndian.Uint16/32/64
BigEndian(b) ==
    IF b = <<>> THEN 0
    ELSE BigEndian(SubSeq(b, 1, Len(b) - 1)) * 256 + b[Len(b)]

-----------------------------------------------------------------------------
(* BuildTree after Finish: the minimal acyclic automaton of the inserted    *)
(* strings.  A node is identified with the set of suffixes it accepts, so  *)
(* two prefixes with the same continuations share one node.                *)

\* the node reached from node n over rune c
Residual(n, c) == {Tail(w) : w \in {v \in n : v # <<>> /\ Head(v) = c}}

\* BuildTreeNode.Edges: rune -> child node
Edges(n) ==
    LET first == {Head(w) : w \in {v \in n : v # <<>>}}
    IN  [c \in first |-> Residual(n, c)]

\* BuildTreeNode.final
IsFinal(n) == <<>> \in n

\* BuildTree.Root
Root == SeqToSet(words)

RECURSIVE Below(_)
\* n and every node reachable from it
Below(n) ==
    {n} \cup UNION {Below(Edges(n)[c]) : c \in DOMAIN Edges(n)}

\* the nodes of the finished tree
Nodes == Below(Root)

-----------------------------------------------------------------------------
(* Encoder (encoder.go, format version 2) *)

endOfWord == 1
endOfNode == 2

\* the header entry Encode starts from: version, pointer length, zero padding
Header ==
    LET two == <<2, 4>>
    IN  two \o [i \in 1..(two[2] + 1 + 1 - Len(two)) |-> 0]

RECURSIVE SumRuneLen(_)
SumRuneLen(S) ==
    IF S = {} THEN 0
    ELSE LET r == CHOOSE x \in S : TRUE IN RuneLen(r) + SumRuneLen(S \ {r})

\* a variant that forgets the variable rune widths
getChildNodesSizeTotalFixedWidth(d, childNodes) ==
    Cardinality(DOMAIN childNodes) * (d[2] + 1 + 1)

\* Encoder.getChildNodesSizeTotal: the encoded size of all edges of a node
getChildNodesSizeTotal(d, childNodes) ==
    LET runelentotal == SumRuneLen(DOMAIN childNodes)
        statictotal  == Cardinality(DOMAIN childNodes) * (d[2] + 1)
    IN  statictotal + runelentotal

RECURSIVE encodeEdgesFrom(_, _, _, _)
\* the loop of Encoder.encodeEdges from index i of the sorted keys; es holds
\* what the loop changes: bytePos, curOffset, queue, data
encodeEdgesFrom(node, edgeKeys, i, es) ==
    IF i > Len(edgeKeys) THEN es
    ELSE
    LET currune == edgeKeys[i]
        child   == Edges(node)[currune]
        runelen == RuneLen(currune)
        flags   == ((IF IsFinal(child) THEN endOfWord ELSE 0)
                    + (IF i = Len(edgeKeys) THEN endOfNode ELSE 0)
                    + runelen * 4) % 256
        fresh   == es.bytePos[child] = 0
        placed  == fresh /\ DOMAIN Edges(child) # {}
        pos1    == IF placed THEN [es.bytePos EXCEPT ![child] = es.curOffset]
                   ELSE es.bytePos
        off1    == IF placed
                   THEN es.curOffset + getChildNodesSizeTotal(es.data, Edges(child))
                   ELSE es.curOffset
        q1      == IF fresh THEN Append(es.queue, child) ELSE es.queue
        pointer == pos1[child]
        entryBytes == <<flags>> \o EncodeRune(currune) \o PutUint(es.data[2], pointer)
    IN  encodeEdgesFrom(node, edgeKeys, i + 1,
            [bytePos |-> pos1, curOffset |-> off1, queue |-> q1,
             data |-> es.data \o entryBytes])

\* Encoder.encodeEdges
encodeEdges(node, es) ==
    encodeEdgesFrom(node, SortRunes(DOMAIN Edges(node)), 1, es)

-----------------------------------------------------------------------------
(* MinTree (the read-only graph) *)

\* a MinTreeNode: Edges (rune -> node), Final, Number
MinTreeNode(final) == [Edges |-> <<>>, Final |-> final, Number |-> 0]

\* newMinTree(): a root without edges, not final
newMinTree == <<MinTreeNode(FALSE)>>

\* m[k] = v (a Go map store)
MapPut(m, k, v) == [x \in DOMAIN m \cup {k} |-> IF x = k THEN v ELSE m[x]]

-----------------------------------------------------------------------------
(* Decoder (decoder.go) *)

\* A byte slice is its backing array and its length: cap(d) = Len(d.arr).
\* d.nodeMap lives for one Decode (it is emptied when decodeMinTree returns);
\* the history keeps its last value.
NoInput == [arr |-> <<>>, len |-> 0, kind |-> "none"]
NoLog   == [allocs |-> <<>>, parsed |-> {}, calls |-> <<>>, rejected |-> {},
            invalid |-> {}, nodeMap |-> <<>>]

\* a character field that is the UTF-8 encoding of exactly one code point
ValidField(charBytes) ==
    LET dr == DecodeRune(charBytes)
    IN  /\ charBytes # <<>>
        /\ dr.size = Len(charBytes)
        /\ dr.r # RuneError \/ charBytes = <<239, 191, 189>>

\* a variant whose lookup in the node map never hits
nodeMapHasNever(nodeMap, ptr) == FALSE

\* _, ok := d.nodeMap[ptr]
nodeMapHas(nodeMap, ptr) == ptr \in DOMAIN nodeMap

RECURSIVE decodeEdge(_, _, _, _)
\* Decoder.decodeEdge(data, parent, offset, entry) from loop position i.
\* ds: the decoder's ptrLen and nodeMap, the tree's nodes, the history, and
\* ret: "nil", "err" (an error is returned) or "panic" (slice bounds out of range).
decodeEdge(d, parent, i, ds) ==
    IF ~(i < d.len) THEN [ds EXCEPT !.ret = "nil"]
    ELSE
    LET flags   == d.arr[i + 1]
        charLen == flags \div 4
    IN
    IF i + charLen + ds.ptrLen + 1 > Len(d.arr) THEN [ds EXCEPT !.ret = "panic"]
    ELSE
    LET charBytes == SubSeq(d.arr, i + 2, i + charLen + 1)
        ptrBytes  == SubSeq(d.arr, i + charLen + 2, i + charLen + ds.ptrLen + 1)
        final     == (flags % (2 * endOfWord)) \div endOfWord = 1
        lastChild == (flags % (2 * endOfNode)) \div endOfNode = 1
        r         == DecodeRune(charBytes).r
    IN
    IF r = RuneError
    THEN [ds EXCEPT !.ret = "err",
                    !.rejected = @ \cup {i},
                    !.invalid = IF ValidField(charBytes) THEN @ ELSE @ \cup {i}]
    ELSE
    LET ptr   == BigEndian(ptrBytes)
        known == nodeMapHas(ds.nodeMap, ptr)
        id    == IF known THEN ds.nodeMap[ptr] ELSE Len(ds.nodes) + 1
        nodes1 == IF known THEN ds.nodes ELSE Append(ds.nodes, MinTreeNode(final))
        ds1   == [ds EXCEPT
                    !.nodes   = [nodes1 EXCEPT ![parent].Edges = MapPut(@, r, id)],
                    !.nodeMap = MapPut(@, ptr, id),
                    !.allocs  = IF known THEN @ ELSE Append(@, ptr),
                    !.parsed  = @ \cup {[at |-> i, parent |-> parent, r |-> r,
                                         ptr |-> ptr, final |-> final, target |-> id]}]
        ds2   == IF ptr > 0
                 THEN decodeEdge(d, id, ptr, [ds1 EXCEPT !.calls = Append(@, ptr)])
                 ELSE ds1
    IN
    IF ds2.ret = "panic" THEN ds2
    ELSE IF lastChild THEN [ds2 EXCEPT !.ret = "nil"]
    ELSE decodeEdge(d, parent, i + charLen + ds.ptrLen + 1, [ds2 EXCEPT !.ret = "nil"])

RECURSIVE doNumbers(_, _)
RECURSIVE doNumbersOver(_, _, _)
\* Decoder.doNumbers(node) on the tree's nodes.  The range over node.Edges is
\* taken in ascending rune order; the numbers do not depend on the order.
doNumbers(nodes, node) ==
    IF nodes[node].Number > 0 THEN nodes
    ELSE doNumbersOver(nodes, node, SortRunes(DOMAIN nodes[node].Edges))

\* the loop of doNumbers over the remaining edges
doNumbersOver(nodes, node, keys) ==
    IF keys = <<>> THEN nodes
    ELSE
    LET child == nodes[node].Edges[Head(keys)]
        n1    == doNumbers(nodes, child)
        n2    == [n1 EXCEPT ![node].Number =
                    @ + (IF n1[child].Final THEN 1 ELSE 0) + n1[child].Number]
    IN  doNumbersOver(n2, node, Tail(keys))

\* Decoder.decodeMinTree(t, data): [nodes, err, log]
decodeMinTree(d) ==
    IF d.len < 2 THEN [nodes |-> newMinTree, err |-> "error", log |-> NoLog]
    ELSE
    LET ptrLen == d.arr[2]
    IN
    IF ptrLen # 2 /\ ptrLen # 4 /\ ptrLen # 8
    THEN [nodes |-> newMinTree, err |-> "error", log |-> NoLog]
    ELSE
    LET ds == decodeEdge(d, 1, ptrLen + 1 + 1,
                [ptrLen |-> ptrLen, nodeMap |-> <<>>, nodes |-> newMinTree,
                 allocs |-> <<>>, parsed |-> {}, calls |-> <<ptrLen + 1 + 1>>,
                 rejected |-> {}, invalid |-> {}, ret |-> "nil"])
        log == [allocs |-> ds.allocs, parsed |-> ds.parsed, calls |-> ds.calls,
                rejected |-> ds.rejected, invalid |-> ds.invalid,
                nodeMap |-> ds.nodeMap]
    IN
    IF ds.ret = "panic" THEN [nodes |-> ds.nodes, err |-> "panic", log |-> log]
    ELSE IF ds.ret = "err" THEN [nodes |-> ds.nodes, err |-> "error", log |-> log]
    ELSE [nodes |-> doNumbers(ds.nodes, 1), err |-> "ok", log |-> log]

-----------------------------------------------------------------------------
(* MinTree queries *)

RECURSIVE TraverseFrom(_, _, _)
\* follow w edge by edge from node n; 0 when a rune has no edge
TraverseFrom(nodes, n, w) ==
    IF w = <<>> THEN n
    ELSE IF Head(w) \in DOMAIN nodes[n].Edges
    THEN TraverseFrom(nodes, nodes[n].Edges[Head(w)], Tail(w))
    ELSE 0

\* MinTree.Traverse(prefix)
Traverse(nodes, w) == TraverseFrom(nodes, 1, w)

\* MinTree.Contains(word)
Contains(nodes, w) ==
    LET n == Traverse(nodes, w) IN n # 0 /\ nodes[n].Final

RECURSIVE IndexedFrom(_, _, _)
\* the rank accumulated from node n along w: at each node, every edge with a
\* smaller rune than the one taken adds (1 if its target is final) + its number
IndexedFrom(nodes, n, w) ==
    IF w = <<>> THEN 0
    ELSE
    LET E       == nodes[n].Edges
        smaller == SortRunes({c \in DOMAIN E : c < Head(w)})
        here    == SumSeq([k \in DOMAIN smaller |->
                      (IF nodes[E[smaller[k]]].Final THEN 1 ELSE 0)
                      + nodes[E[smaller[k]]].Number])
    IN  here + IndexedFrom(nodes, E[Head(w)], Tail(w))

\* MinTree.IndexedTraverse(prefix): the rank, -1 when the walk fails
IndexedTraverse(nodes, w) ==
    IF Traverse(nodes, w) = 0 THEN -1 ELSE IndexedFrom(nodes, 1, w)

-----------------------------------------------------------------------------
(* Actions: building *)

Init ==
    /\ words = <<>>
    /\ finished = FALSE
    /\ bytePos = <<>>
    /\ epc = "idle"
    /\ queue = <<>>
    /\ curOffset = 0
    /\ data = <<>>
    /\ output = <<>>
    /\ runLog = <<>>
    /\ queueLog = <<>>
    /\ input = NoInput
    /\ tree = newMinTree
    /\ err = "none"
    /\ decLog = NoLog
    /\ dfpc = "idle"
    /\ pending = <<>>
    /\ channel = <<>>
    /\ received = <<>>
    /\ consumer = "reading"

\* BuildTree.Insert(w): strictly ascending order, no empty string
Insert ==
    /\ ~finished
    /\ \E w \in StringsUpTo(MaxRunes - SumSeq([i \in DOMAIN words |-> Len(words[i])])) \ {<<>>} :
        /\ IF words = <<>> THEN TRUE ELSE LexLess(words[Len(words)], w)
        /\ words' = Append(words, w)
    /\ UNCHANGED <<finished, encVars, decVars, enumVars>>

\* BuildTree.Finish(): the graph is minimal and frozen, no node has a position
Finish ==
    /\ ~finished
    /\ finished' = TRUE
    /\ bytePos' = [n \in Nodes |-> 0]
    /\ UNCHANGED <<words, epc, queue, curOffset, data, output, runLog, queueLog, decVars, enumVars>>

-----------------------------------------------------------------------------
(* Actions: Encoder.Encode *)

\* Encode up to the queue loop: header, cursor, the root's edges
EncodeBegin ==
    /\ finished
    /\ epc = "idle"
    /\ LET d0 == Header
           es == encodeEdges(Root,
                    [bytePos |-> bytePos,
                     curOffset |-> getChildNodesSizeTotal(d0, Edges(Root)) + d0[2] + 1 + 1,
                     queue |-> <<>>,
                     data |-> d0])
       IN  /\ bytePos' = es.bytePos
           /\ curOffset' = es.curOffset
           /\ queue' = es.queue
           /\ data' = es.data
           /\ runLog' = <<[node |-> Root, start |-> Len(d0)]>>
           /\ queueLog' = es.queue
    /\ epc' = "queue"
    /\ UNCHANGED <<buildVars, output, decVars, enumVars>>

\* the first Encode of the tree
Encode ==
    /\ output = <<>>
    /\ EncodeBegin

\* a later Encode of the same tree
EncodeAgain ==
    /\ output # <<>>
    /\ Len(output) < MaxEncodes
    /\ EncodeBegin

\* one turn of the queue loop: pop the first node, encode its edges
EncodePop ==
    /\ epc = "queue"
    /\ queue # <<>>
    /\ LET top == Head(queue)
           es  == encodeEdges(top,
                    [bytePos |-> bytePos, curOffset |-> curOffset,
                     queue |-> Tail(queue), data |-> data])
       IN  /\ bytePos' = es.bytePos
           /\ curOffset' = es.curOffset
           /\ queue' = es.queue
           /\ data' = es.data
           /\ runLog' = Append(runLog, [node |-> top, start |-> Len(data)])
           /\ queueLog' = queueLog \o SubSeq(es.queue, Len(queue), Len(es.queue))
    /\ UNCHANGED <<buildVars, epc, output, decVars, enumVars>>

\* the queue is empty: Encode returns data
EncodeReturn ==
    /\ epc = "queue"
    /\ queue = <<>>
    /\ output' = Append(output, data)
    /\ epc' = "idle"
    /\ UNCHANGED <<buildVars, bytePos, queue, curOffset, data, runLog, queueLog, decVars, enumVars>>

-----------------------------------------------------------------------------
(* Actions: Decoder.Decode *)

\* Decode(d): the tree and the error it returns
DecodeInput(d) ==
    /\ err = "none"
    /\ LET res == decodeMinTree(d)
       IN  /\ tree' = res.nodes
           /\ err' = res.err
           /\ decLog' = res.log
    /\ input' = d
    /\ UNCHANGED <<buildVars, encVars, enumVars>>

\* Decode of the bytes the first Encode returned
Decode ==
    /\ epc = "idle"
    /\ output # <<>>
    /\ DecodeInput([arr |-> output[1], len |-> Len(output[1]), kind |-> "encoded"])

RECURSIVE EntryOffsetsFrom(_, _)
\* the offsets of the edge entries of an encoded buffer, which follow one
\* another from the end of the header: flags, character, pointer
EntryOffsetsFrom(buf, i) ==
    IF i >= Len(buf) THEN {}
    ELSE {i} \cup EntryOffsetsFrom(buf, i + 1 + (buf[i + 1] \div 4) + buf[2])

EntryOffsets(buf) == EntryOffsetsFrom(buf, buf[2] + 1 + 1)

\* Decode of the first n bytes of an encoding of a non-empty set, n short of
\* all of it; the slice is a copy (cap = len) or a reslice buf[:n] of the
\* encoder's slice (the bytes cut off stay in the backing array)
DecodeTruncated ==
    /\ epc = "idle"
    /\ output # <<>>
    /\ words # <<>>
    /\ \E n \in 0..(Len(output[1]) - 1), resliced \in BOOLEAN :
        DecodeInput([arr |-> IF resliced THEN output[1] ELSE SubSeq(output[1], 1, n),
                     len |-> n, kind |-> "truncated"])

\* Decode of an encoding in which the character field of one edge entry has
\* been overwritten with 0xFF, which starts no UTF-8 sequence
DecodeCorrupted ==
    /\ epc = "idle"
    /\ output # <<>>
    /\ \E i \in EntryOffsets(output[1]) :
        DecodeInput([arr |-> [output[1] EXCEPT ![i + 2] = 255],
                     len |-> Len(output[1]), kind |-> "corrupted"])

-----------------------------------------------------------------------------
(* Actions: depthFirst, the enumerator, and the reader of its channel *)

\* go df.start() on the tree a successful Decode of an encoding returned
Start ==
    /\ err = "ok"
    /\ input.kind = "encoded"
    /\ dfpc = "idle"
    /\ dfpc' = "search"
    /\ pending' = <<[node |-> 1, word |-> <<>>]>>
    /\ UNCHANGED <<buildVars, encVars, decVars, channel, received, consumer>>

\* depthFirst.search(node, word): a final node sends its word and returns,
\* any other node searches its children in ascending rune order
Search ==
    /\ dfpc = "search"
    /\ pending # <<>>
    /\ LET call == Head(pending)
           node == tree[call.node]
           keys == SortRunes(DOMAIN node.Edges)
       IN  IF node.Final
           THEN /\ channel' = <<call.word>>
                /\ dfpc' = "send"
                /\ pending' = Tail(pending)
           ELSE /\ pending' = [k \in DOMAIN keys |->
                                 [node |-> node.Edges[keys[k]],
                                  word |-> Append(call.word, keys[k])]]
                               \o Tail(pending)
                /\ UNCHANGED <<channel, dfpc>>
    /\ UNCHANGED <<buildVars, encVars, decVars, received, consumer>>

\* the send completes: the reader takes the word off the channel
Receive ==
    /\ dfpc = "send"
    /\ consumer = "reading"
    /\ received' = Append(received, channel[1])
    /\ channel' = <<>>
    /\ dfpc' = "search"
    /\ UNCHANGED <<buildVars, encVars, decVars, pending, consumer>>

\* search has returned to start: close(this.channel), start returns
Close ==
    /\ dfpc = "search"
    /\ pending = <<>>
    /\ dfpc' = "closed"
    /\ UNCHANGED <<buildVars, encVars, decVars, pending, channel, received, consumer>>

\* the reader stops reading before the channel is closed
ConsumerStop ==
    /\ consumer = "reading"
    /\ dfpc \in {"search", "send"}
    /\ consumer' = "stopped"
    /\ UNCHANGED <<buildVars, encVars, decVars, dfpc, pending, channel, received>>

\* the reader finds the channel closed: it has read it to exhaustion
ConsumerDone ==
    /\ consumer = "reading"
    /\ dfpc = "closed"
    /\ consumer' = "done"
    /\ UNCHANGED <<buildVars, encVars, decVars, dfpc, pending, channel, received>>

-----------------------------------------------------------------------------
(* Specifications *)

\* build, encode (more than once), decode what the first Encode returned
Next == Insert \/ Finish \/ Encode \/ EncodeAgain \/ EncodePop \/ EncodeReturn \/ Decode

Spec == Init /\ [][Next]_vars

\* build, encode, decode a damaged copy of the encoding
NextMalformed ==
    Insert \/ Finish \/ Encode \/ EncodePop \/ EncodeReturn
        \/ DecodeTruncated \/ DecodeCorrupted

SpecMalformed == Init /\ [][NextMalformed]_vars

\* the steps of the producer goroutine
Producer == Search \/ Receive \/ Close

\* build, encode, decode, enumerate; a runnable goroutine is scheduled
NextEnum ==
    Insert \/ Finish \/ Encode \/ EncodePop \/ EncodeReturn \/ Decode
        \/ Start \/ Search \/ Receive \/ Close \/ ConsumerStop \/ ConsumerDone

SpecEnum == Init /\ [][NextEnum]_vars /\ WF_vars(Producer)

-----------------------------------------------------------------------------
(* Properties *)

\* the member set
W == SeqToSet(words)

\* Decode has been called on the bytes the first Encode returned
Decoded == err # "none" /\ input.kind = "encoded"

\* the decoded graph accepts exactly the member set
AcceptsW ==
    \A w \in StringsUpTo(MaxRunes + 1) : Contains(tree, w) <=> w \in W

\* no member string holds U+FFFD
NoReplacementChar == \A w \in W : \A i \in DOMAIN w : w[i] # RuneError

\* the number of member strings strictly less than w
CountLess(w) == Cardinality({v \in W : LexLess(v, w)})

\* the recurrence of the numbering at node n
NumberSum(n) ==
    LET E    == tree[n].Edges
        keys == SortRunes(DOMAIN E)
    IN  SumSeq([k \in DOMAIN keys |->
            (IF tree[E[keys[k]]].Final THEN 1 ELSE 0) + tree[E[keys[k]]].Number])

\* C1 (round trip): decoding the bytes of one Encode of the finished tree built
\* from W succeeds and yields a graph that accepts exactly the strings of W.
RoundTrip == Decoded => (err = "ok" /\ AcceptsW)

\* Supporting C1: the round trip holds for every W without U+FFFD.
RoundTripWithoutReplacementChar ==
    (Decoded /\ NoReplacementChar) => (err = "ok" /\ AcceptsW)

\* C2 (enumeration): on a decoded graph that accepts exactly W, a reader that
\* reads the enumerator's channel until it is closed has received every string
\* of W exactly once, in ascending order.
EnumeratesMembersInOrder ==
    (consumer = "done" /\ AcceptsW) => received = words

\* C3 (determinism): a second Encode of the same finished tree returns the
\* bytes the first Encode returned.
EncodeTwiceIdentical == Len(output) >= 2 => output[2] = output[1]

\* C4 (minimal perfect hash): on a decoded graph that accepts exactly W, the
\* rank IndexedTraverse gives a member string w is the number of member strings
\* strictly less than w, plus one.
RankIsCountLessPlusOne ==
    (Decoded /\ err = "ok" /\ AcceptsW) =>
        \A w \in W : IndexedTraverse(tree, w) = CountLess(w) + 1

\* C5 (numbering): after a successful Decode of an encoding of W every node's
\* Number is the sum over its edges of (1 if the target is final) + the
\* target's Number, and the root's Number is the number of strings in W.
NumbersCountWords ==
    (Decoded /\ err = "ok") =>
        /\ \A n \in DOMAIN tree : tree[n].Number = NumberSum(n)
        /\ tree[1].Number = Cardinality(W)

\* Supporting C5: the numbering holds for every W without U+FFFD.
NumbersWithoutReplacementChar ==
    (Decoded /\ NoReplacementChar) =>
        /\ \A n \in DOMAIN tree : tree[n].Number = NumberSum(n)
        /\ tree[1].Number = Cardinality(W)

\* C6 (invalid character field): when the decoder has read, at any depth, an
\* edge entry whose character field is not the encoding of a code point,
\* Decode returns an error.
InvalidCharacterIsAnError ==
    (err # "none" /\ decLog.invalid # {}) => err = "error"

\* C7 (truncated buffer): Decode of an encoding of a non-empty set with one or
\* more trailing bytes removed returns an error: it neither succeeds nor
\* panics.
TruncatedIsAnError ==
    (err # "none" /\ input.kind = "truncated") => err = "error"

\* C8 (early termination): once the reader has stopped reading, the producer
\* eventually returns from start.
ProducerFinishesAfterStop == (consumer = "stopped") ~> (dfpc = "closed")

Inner == {n \in Nodes : DOMAIN Edges(n) # {}}

\* where the first Encode began the run of node n
RunStart(n) == runLog[CHOOSE k \in DOMAIN runLog : runLog[k].node = n].start

\* the offset of the j-th entry of a run that starts at s, the keys sorted
EntryPos(s, keys, j, ptrLen) ==
    s + SumSeq([k \in 1..(j - 1) |-> 1 + RuneLen(keys[k]) + ptrLen])

\* C10 (pointer consistency): when the first Encode has returned, the root's
\* run begins at pointer length + 2; every node with edges has one run and,
\* but for the root, was queued once with that run's offset as bytePos; each
\* entry, found where the run places it with its flags and character, has a
\* pointer field that is 0 exactly when the target has no edges and is
\* otherwise the offset at which the target's run begins.
PointersAreRunOffsets ==
    (Len(output) = 1 /\ epc = "idle") =>
        LET out    == output[1]
            ptrLen == out[2]
        IN  /\ runLog[1] = [node |-> Root, start |-> ptrLen + 2]
            /\ \A n \in Inner :
                /\ Cardinality({k \in DOMAIN runLog : runLog[k].node = n}) = 1
                /\ n # Root =>
                    /\ Cardinality({k \in DOMAIN queueLog : queueLog[k] = n}) = 1
                    /\ bytePos[n] = RunStart(n)
                /\ LET keys == SortRunes(DOMAIN Edges(n))
                   IN  \A j \in DOMAIN keys :
                        LET pos   == EntryPos(RunStart(n), keys, j, ptrLen)
                            clen  == RuneLen(keys[j])
                            child == Edges(n)[keys[j]]
                            ptr   == BigEndian(SubSeq(out, pos + clen + 2,
                                                      pos + clen + ptrLen + 1))
                        IN  /\ pos + clen + ptrLen + 1 <= Len(out)
                            /\ out[pos + 1] = (IF IsFinal(child) THEN endOfWord ELSE 0)
                                              + (IF j = Len(keys) THEN endOfNode ELSE 0)
                                              + 4 * clen
                            /\ SubSeq(out, pos + 2, pos + clen + 1) = EncodeRune(keys[j])
                            /\ ptr = 0 <=> child \notin Inner
                            /\ ptr # 0 => ptr = RunStart(child)

\* C10 witness: the first Encode has returned for a tree in which a node with
\* edges has two parents.
SharedNodeEncoded ==
    /\ Len(output) = 1
    /\ epc = "idle"
    /\ \E n \in Inner :
        Cardinality({pc \in Nodes \X Alphabet :
                        pc[2] \in DOMAIN Edges(pc[1]) /\ Edges(pc[1])[pc[2]] = n}) >= 2

====
